---- MODULE Spec2Model ----
(***************************************************************************)
(* Model of the sudoku solver of main.go: the Cell bitset, the Board, the  *)
(* propagating assignment Board.Set, the Lowest heuristic and the          *)
(* backtracking search Board.Solve.                                        *)
(*                                                                         *)
(* A Cell (a uint16 whose bit d-1 stands for digit d) is modelled as the   *)
(* set of digits whose bit is set.  The board is scaled by the box         *)
(* dimension: the program is BoxDim = 3 (Size = 9).                        *)
(***************************************************************************)
EXTENDS Integers, Sequences, FiniteSets, TLC

\* ------------------------------------------------------------- bounds
BoxDim == 2
MaxSeeds == 3
MaxSolveSeeds == 3
SeedRows == 2
MaxTermSeeds == 2
MaxConfSeeds == 3
MaxFreeSeeds == 3

\* ---------------------------------------------------------- constants
Size == BoxDim * BoxDim
UintBits == 64

Digits1 == 1..Size
Idx == 0..(Size - 1)
NCells == Size * Size
Pos == 0..(NCells - 1)

\* --------------------------------------------------------------- Cell
All == 1..Size

Clear(c) == {}

CellSet(c, i) == c \cup {i}

Drop(c, i) == c \ {i}

IsSet(c, i) == i \in c

Count(c) == Cardinality(c)

\* c&(c-1) == 0 && c != 0 : exactly one bit set
Single(c) == c # {} /\ \A x \in c : \A y \in c : x = y

\* TrailingZeros(uint(c)) without the "1 +"
DigitZeroBased(c) == IF c = {} THEN UintBits ELSE (CHOOSE x \in c : \A y \in c : x <= y) - 1

\* 1 + TrailingZeros(uint(c)); TrailingZeros(0) is the width of uint
Digit(c) == IF c = {} THEN 1 + UintBits ELSE CHOOSE x \in c : \A y \in c : x <= y

\* an iterator step that flips the two lowest bits
FlipTwoLowest(c) == c \ {x \in c : Cardinality({y \in c : y < x}) < 2}

\* the remaining value of the iterator after "c ^= c & -c"
FlipLowest(c) == c \ {Digit(c)}

RECURSIVE Digits(_)
Digits(c) == IF c = {} THEN << >> ELSE << Digit(c) >> \o Digits(FlipLowest(c))

\* -------------------------------------------------------------- Board
At(i, j) == i * Size + j

RowOf(p) == p \div Size
ColOf(p) == p % Size

EmptyBoard == [p \in Pos |-> All]

\* Row(i): column indices 0..Size-1 in order, with the cell At(i, j)
Row(i) == [k \in 1..Size |-> << i, k - 1 >>]

\* Col(j): row indices 0..Size-1 in order, with the cell At(i, j)
Col(j) == [k \in 1..Size |-> << k - 1, j >>]

BoxBase(i) == (i \div BoxDim) * BoxDim

RECURSIVE BoxFrom(_, _, _, _)
BoxFrom(i, j, x, y) ==
    IF x >= BoxBase(i) + BoxDim THEN << >>
    ELSE IF y >= BoxBase(j) + BoxDim THEN BoxFrom(i, j, x + 1, BoxBase(j))
    ELSE IF x = i /\ y = j THEN BoxFrom(i, j, x, y + 1)
    ELSE << << x, y >> >> \o BoxFrom(i, j, x, y + 1)

\* Box(i, j): the other cells of the box of (i, j), row-major
Box(i, j) == BoxFrom(i, j, BoxBase(i), BoxBase(j))

\* --------------------------------------------------------- Board.Set
\* Board.Set is recursive: a run of it is modelled by its call stack.  A run
\* state is [b: the board, fs: the active Set calls, innermost last]; a call
\* is [i, j, d: its arguments, k: the next peer its loops visit].

\* the cells the three loops of Set(i, j, d) range over, in order: the row,
\* the column, the box.  The row and the column hold (i, j) itself, which the
\* loops skip by "j != jj" and "i != ii".
LoopCells == [p \in Pos |-> Row(RowOf(p)) \o Col(ColOf(p)) \o Box(RowOf(p), ColOf(p))]

\* peers without the box loop
PeersNoBox(i, j) == SubSeq(LoopCells[At(i, j)], 1, 2 * Size)

Peers(i, j) == LoopCells[At(i, j)]

\* the loops' condition at the peer (x, y) of the call f:
\*   <not the cell itself> && c.IsSet(d)
Hit(b, f, x, y) == (x # f.i \/ y # f.j) /\ IsSet(b[At(x, y)], f.d)

\* the first peer from the k-th on at which the condition holds
\* (Len(ps) + 1: none)
NextHit(b, f, ps, k) ==
    LET hits == {h \in k..Len(ps) : Hit(b, f, ps[h][1], ps[h][2])}
    IN  IF hits = {} THEN Len(ps) + 1 ELSE CHOOSE h \in hits : \A g \in hits : h <= g

\* a call that does not clear the cell before setting d
SetCallNoClear(b, fs, i, j, d) ==
    [b |-> [b EXCEPT ![At(i, j)] = CellSet(b[At(i, j)], d)],
     fs |-> Append(fs, [i |-> i, j |-> j, d |-> d, k |-> 1])]

\* a call of b.Set(i, j, d): b.At(i, j).Clear().Set(d), then enter the loops
SetCall(b, fs, i, j, d) ==
    [b |-> [b EXCEPT ![At(i, j)] = CellSet(Clear(b[At(i, j)]), d)],
     fs |-> Append(fs, [i |-> i, j |-> j, d |-> d, k |-> 1])]

\* a visit that drops the digit but never resolves a forced single
SetVisitNoCascade(m, ps, k) ==
    LET n == Len(m.fs)
    IN  IF k > Len(ps)
        THEN [b |-> m.b, fs |-> SubSeq(m.fs, 1, n - 1)]
        ELSE [b |-> [m.b EXCEPT ![At(ps[k][1], ps[k][2])] = Drop(@, m.fs[n].d)],
              fs |-> [m.fs EXCEPT ![n].k = k + 1]]

\* a visit whose call returns as soon as a forced single has been resolved
SetVisitReturnAfterCascade(m, ps, k) ==
    LET n == Len(m.fs)
        f == m.fs[n]
    IN  IF k > Len(ps)
        THEN [b |-> m.b, fs |-> SubSeq(m.fs, 1, n - 1)]
        ELSE LET x == ps[k][1]
                 y == ps[k][2]
                 b2 == [m.b EXCEPT ![At(x, y)] = Drop(@, f.d)]
             IN  IF Single(b2[At(x, y)])
                 THEN SetCall(b2, [m.fs EXCEPT ![n].k = Len(ps) + 1], x, y, Digit(b2[At(x, y)]))
                 ELSE [b |-> b2, fs |-> [m.fs EXCEPT ![n].k = k + 1]]

\* the innermost call f of the run state m at its k-th peer c, where
\*   <not the cell itself> && c.IsSet(d) && c.Drop(d).Single() { b.Set(x, y, c.Digit()) }
\* drops d from c, and calls Set if c is Single now; k > Len(ps): the loops
\* are done, the call returns
SetVisit(m, ps, k) ==
    LET n == Len(m.fs)
        f == m.fs[n]
    IN  IF k > Len(ps)
        THEN [b |-> m.b, fs |-> SubSeq(m.fs, 1, n - 1)]
        ELSE LET x == ps[k][1]
                 y == ps[k][2]
                 b2 == [m.b EXCEPT ![At(x, y)] = Drop(@, f.d)]
                 fs2 == [m.fs EXCEPT ![n].k = k + 1]
             IN  IF Single(b2[At(x, y)])
                 THEN SetCall(b2, fs2, x, y, Digit(b2[At(x, y)]))
                 ELSE [b |-> b2, fs |-> fs2]

\* F(e), with the argument e evaluated once
Once(F(_), e) == CHOOSE r \in {F(v) : v \in {e}} : TRUE

\* one step of the innermost call of the run state m, whose loops range over
\* ps: go on to the next peer where the condition holds and visit it
SetStepOn(m, ps) ==
    Once(LAMBDA k : SetVisit(m, ps, k),
         NextHit(m.b, m.fs[Len(m.fs)], ps, m.fs[Len(m.fs)].k))

\* one step of a run of Set
SetStep(m) == SetStepOn(m, Peers(m.fs[Len(m.fs)].i, m.fs[Len(m.fs)].j))

\* the outermost call has returned
SetReturned(m) == m.fs = << >>

\* the run state m after 2^n more steps, or when the outermost call has
\* returned
RECURSIVE SetRun(_, _)
SetRunFrom(m, n) ==
    IF SetReturned(m) THEN m
    ELSE IF n = 0 THEN SetStep(m)
    ELSE SetRun(SetRun(m, n - 1), n - 1)

SetRun(m, n) == Once(LAMBDA v : SetRunFrom(v, n), m)

\* the least n with 2^n >= x
RECURSIVE Log2(_)
Log2(x) == IF x <= 1 THEN 0 ELSE 1 + Log2((x + 1) \div 2)

\* 2^RunLog steps are more than a run of Set takes: every step but a return
\* drops a candidate from the board, and a cell is resolved by one call at most
RunLog == Log2(NCells * (Size + 1))

\* Board.Set(i, j, d) on the board b: the board when the call returns
Set(b, i, j, d) == SetRun(SetCall(b, << >>, i, j, d), RunLog).b

\* ------------------------------------- Board.Set under other orders
\* the three loops of Set, as groups of cells
Groups(p) == << Row(RowOf(p)), Col(ColOf(p)), Box(RowOf(p), ColOf(p)) >>

Reverse(s) == [k \in 1..Len(s) |-> s[Len(s) + 1 - k]]

\* an order of the loops: a permutation of the three groups, and whether each
\* group is ranged over backwards
GroupOrders == {g \in [1..3 -> 1..3] : \A x \in 1..3 : \A y \in 1..3 : x # y => g[x] # g[y]}

CodeOrder == << [k \in 1..3 |-> k], FALSE >>

\* the orders tried: every order of the groups, and the order of the code
\* with each group backwards
Orders == (GroupOrders \X {FALSE}) \cup {<< CodeOrder[1], TRUE >>}

OrdCells ==
    [o \in Orders |->
        [p \in Pos |->
            LET g == Groups(p)
                h == [k \in 1..3 |-> IF o[2] THEN Reverse(g[o[1][k]]) ELSE g[o[1][k]]]
            IN  h[1] \o h[2] \o h[3]]]

\* one step of a run of Set whose loops follow the order o
OrdStep(m, o) == SetStepOn(m, OrdCells[o][At(m.fs[Len(m.fs)].i, m.fs[Len(m.fs)].j)])

RECURSIVE OrdRun(_, _, _)
OrdRunFrom(m, n, o) ==
    IF SetReturned(m) THEN m
    ELSE IF n = 0 THEN OrdStep(m, o)
    ELSE OrdRun(OrdRun(m, n - 1, o), n - 1, o)

OrdRun(m, n, o) == Once(LAMBDA v : OrdRunFrom(v, n, o), m)

\* Set(i, j, d) on the board b with loops that follow the order o
SetOrdered(b, i, j, d, o) == OrdRun(SetCall(b, << >>, i, j, d), RunLog, o).b

\* Set with the calls for forced singles deferred: a run state is [b: the
\* board, q: the calls of Set still to make, first at the head, k: the next
\* peer of the call at the head, 0 before the call has begun]
DeferVisit(m, ps, k) ==
    IF k > Len(ps)
    THEN [b |-> m.b, q |-> Tail(m.q), k |-> 0]
    ELSE LET x == ps[k][1]
             y == ps[k][2]
             b2 == [m.b EXCEPT ![At(x, y)] = Drop(@, m.q[1].d)]
         IN  IF Single(b2[At(x, y)])
             THEN [b |-> b2,
                   q |-> Append(m.q, [i |-> x, j |-> y, d |-> Digit(b2[At(x, y)])]),
                   k |-> k + 1]
             ELSE [b |-> b2, q |-> m.q, k |-> k + 1]

DeferStep(m) ==
    LET f == m.q[1]
    IN  IF m.k = 0
        THEN [b |-> SetCall(m.b, << >>, f.i, f.j, f.d).b, q |-> m.q, k |-> 1]
        ELSE Once(LAMBDA k : DeferVisit(m, Peers(f.i, f.j), k),
                  NextHit(m.b, f, Peers(f.i, f.j), m.k))

RECURSIVE DeferRun(_, _)
DeferRunFrom(m, n) ==
    IF m.q = << >> THEN m
    ELSE IF n = 0 THEN DeferStep(m)
    ELSE DeferRun(DeferRun(m, n - 1), n - 1)

DeferRun(m, n) == Once(LAMBDA v : DeferRunFrom(v, n), m)

SetDeferred(b, i, j, d) ==
    DeferRun([b |-> b, q |-> << [i |-> i, j |-> j, d |-> d] >>, k |-> 0], RunLog + 1).b

\* the other orders of processing: the orders of the loops but the one of the
\* code, and deferral
Variants == (Orders \ {CodeOrder}) \cup {"deferred"}

SetVariant(b, i, j, d, v) ==
    IF v = "deferred" THEN SetDeferred(b, i, j, d) ELSE SetOrdered(b, i, j, d, v)

\* ------------------------------------------------------ Board.Lowest
\* a scan that lacks "1 < count"
RECURSIVE LowestFromAnyCount(_, _, _)
LowestFromAnyCount(b, p, acc) ==
    IF p >= NCells THEN acc
    ELSE LET c == Count(b[p])
         IN  IF c < acc.lowest
             THEN LowestFromAnyCount(b, p + 1, [lowest |-> c, i |-> RowOf(p), j |-> ColOf(p), ok |-> TRUE])
             ELSE LowestFromAnyCount(b, p + 1, acc)

\* the scan of Lowest from cell p on; acc = [lowest, i, j, ok]
RECURSIVE LowestFrom(_, _, _)
LowestFrom(b, p, acc) ==
    IF p >= NCells THEN acc
    ELSE LET c == Count(b[p])
         IN  IF 1 < c /\ c < acc.lowest
             THEN LowestFrom(b, p + 1, [lowest |-> c, i |-> RowOf(p), j |-> ColOf(p), ok |-> TRUE])
             ELSE LowestFrom(b, p + 1, acc)

Lowest(b) == LowestFrom(b, 0, [lowest |-> Size + 1, i |-> 0, j |-> 0, ok |-> FALSE])

\* ------------------------------------------------------ Board.Solved
\* Solved with a Single test that lacks "c != 0"
SolvedAllowEmpty(b) == \A i \in Idx : \A j \in Idx : Count(b[At(i, j)]) <= 1

Solved(b) == \A i \in Idx : \A j \in Idx : Single(b[At(i, j)])

\* a failed guess that is not undone
RestoreNothing(b, cpy) == b

\* copy(b[:], cpy[:]) after a failed guess
Restore(b, cpy) == cpy

\* ------------------------------------------------ the sudoku rule
SameRow(p, q) == RowOf(p) = RowOf(q)
SameCol(p, q) == ColOf(p) = ColOf(q)
SameBox(p, q) == BoxBase(RowOf(p)) = BoxBase(RowOf(q)) /\ BoxBase(ColOf(p)) = BoxBase(ColOf(q))
Peer(p, q) == p # q /\ (SameRow(p, q) \/ SameCol(p, q) \/ SameBox(p, q))

NoGrid == [p \in Pos |-> 0]

\* the completed grids obeying the row/column/box rule, built cell by cell:
\* G is the set of rule-consistent fillings of the cells before p
RECURSIVE GridsFrom(_, _)
GridsFrom(p, G) ==
    IF p >= NCells THEN G
    ELSE GridsFrom(p + 1,
            UNION {{[g EXCEPT ![p] = d] :
                        d \in {e \in Digits1 : \A q \in 0..(p - 1) : Peer(p, q) => g[q] # e}} :
                   g \in G})

Grids == GridsFrom(0, {NoGrid})

\* every digit of the grid g is among the candidates of b
Compatible(g, b) == \A p \in Pos : g[p] \in b[p]

\* some completed rule-consistent grid takes every digit from the candidates of b
HasSolution(b) == \E g \in Grids : Compatible(g, b)

\* ------------------------------------------------------------- state
VARIABLES
    board,    \* the Board b of main
    pc,       \* "seed": main is assigning clues; "call": a Solve call begins;
              \* "loop": at the head of Solve's for loop; "ret": a Solve call
              \* has returned; "done": the top-level Solve has returned
    stack,    \* the Solve calls that are inside their for loop, innermost last:
              \* [i, j: the cell of Lowest; c: the iterator's remaining digits;
              \*  cpy: the copy taken before the guess; entry: the board when
              \*  the call began (history)]
    ret,      \* the value returned by the Solve call that returned last
    entry,    \* history: the board when the call that returned last began
    board0,   \* history: the board when the top-level Solve was called
    nseeds,   \* number of top-level Set calls made by main
    last,     \* history: << i, j, d >> of the last top-level Set call
    pre,      \* history: the board before the last top-level Set call
    lastSet,  \* history: per cell, the digit of its last top-level Set (0: none)
    dup,      \* history, set when Solve is called: two cells of one row had the
              \* same digit as their last top-level Set
    alt,      \* the result of the last top-level Set under another peer order
    sol       \* a completed grid whose digits main assigns (SpecSol only)

vars == << board, pc, stack, ret, entry, board0, nseeds, last, pre, lastSet, dup, alt, sol >>

\* two different cells of one row whose last top-level Set gave the same digit
DupRow(ls) ==
    \E i \in Idx : \E j \in Idx : \E k \in Idx :
        j # k /\ ls[At(i, j)] # 0 /\ ls[At(i, j)] = ls[At(i, k)]

\* main: b := EmptyBoard()
Start ==
    /\ board = EmptyBoard
    /\ pc = "seed"
    /\ stack = << >>
    /\ ret = FALSE
    /\ entry = EmptyBoard
    /\ board0 = EmptyBoard
    /\ nseeds = 0
    /\ last = << >>
    /\ pre = EmptyBoard
    /\ lastSet = NoGrid
    /\ dup = FALSE
    /\ alt = EmptyBoard

Init == Start /\ sol = NoGrid

\* main: b.Set(i, j, d) on the board built so far
DoSeed(i, j, d) ==
    /\ pc = "seed"
    /\ board' = Set(board, i, j, d)
    /\ alt' = board'
    /\ pre' = board
    /\ last' = << i, j, d >>
    /\ lastSet' = [lastSet EXCEPT ![At(i, j)] = d]
    /\ nseeds' = nseeds + 1
    /\ UNCHANGED << pc, stack, ret, entry, board0, dup, sol >>

Seed ==
    /\ nseeds < MaxSeeds
    /\ \E i \in Idx : \E j \in Idx : \E d \in Digits1 : DoSeed(i, j, d)

\* main: b.Solve()
StartSolve ==
    /\ pc = "seed"
    /\ pc' = "call"
    /\ board0' = board
    /\ dup' = DupRow(lastSet)
    /\ last' = << >>
    /\ pre' = EmptyBoard
    /\ lastSet' = NoGrid
    /\ alt' = EmptyBoard
    /\ UNCHANGED << board, stack, ret, entry, nseeds, sol >>

\* Solve: Lowest reports no cell: return b.Solved()
SolveBase ==
    /\ pc = "call"
    /\ ~Lowest(board).ok
    /\ ret' = Solved(board)
    /\ entry' = board
    /\ pc' = "ret"
    /\ UNCHANGED << board, stack, board0, nseeds, last, pre, lastSet, dup, alt, sol >>

\* Solve: Lowest reports (i, j): range over b.At(i, j).Digits()
SolveBranch ==
    /\ pc = "call"
    /\ Lowest(board).ok
    /\ LET l == Lowest(board)
       IN  stack' = Append(stack, [i |-> l.i, j |-> l.j, c |-> board[At(l.i, l.j)],
                                   cpy |-> board, entry |-> board])
    /\ pc' = "loop"
    /\ UNCHANGED << board, ret, entry, board0, nseeds, last, pre, lastSet, dup, alt, sol >>

\* Solve: the loop body up to the recursive call: copy, b.Set(i, j, d), b.Solve()
SolveGuess ==
    /\ pc = "loop"
    /\ LET f == stack[Len(stack)]
       IN  /\ f.c # {}
           /\ stack' = [stack EXCEPT ![Len(stack)].cpy = board]
           /\ board' = Set(board, f.i, f.j, Digit(f.c))
    /\ pc' = "call"
    /\ UNCHANGED << ret, entry, board0, nseeds, last, pre, lastSet, dup, alt, sol >>

\* Solve: the digits are exhausted: return false
SolveFail ==
    /\ pc = "loop"
    /\ stack[Len(stack)].c = {}
    /\ ret' = FALSE
    /\ entry' = stack[Len(stack)].entry
    /\ stack' = SubSeq(stack, 1, Len(stack) - 1)
    /\ pc' = "ret"
    /\ UNCHANGED << board, board0, nseeds, last, pre, lastSet, dup, alt, sol >>

\* Solve: the recursive call returned true: return true
SolveSuccess ==
    /\ pc = "ret"
    /\ stack # << >>
    /\ ret
    /\ entry' = stack[Len(stack)].entry
    /\ stack' = SubSeq(stack, 1, Len(stack) - 1)
    /\ UNCHANGED << board, pc, ret, board0, nseeds, last, pre, lastSet, dup, alt, sol >>

\* Solve: the recursive call returned false: copy(b[:], cpy[:]), next digit
SolveRestore ==
    /\ pc = "ret"
    /\ stack # << >>
    /\ ~ret
    /\ LET f == stack[Len(stack)]
       IN  /\ board' = Restore(board, f.cpy)
           /\ stack' = [stack EXCEPT ![Len(stack)].c = FlipLowest(f.c)]
    /\ pc' = "loop"
    /\ UNCHANGED << ret, entry, board0, nseeds, last, pre, lastSet, dup, alt, sol >>

\* main: the top-level Solve has returned
SolveDone ==
    /\ pc = "ret"
    /\ stack = << >>
    /\ pc' = "done"
    /\ UNCHANGED << board, stack, ret, entry, board0, nseeds, last, pre, lastSet, dup, alt, sol >>

\* main assigns clues only
Next == Seed

Spec == Init /\ [][Next]_vars

\* main assigns at most MaxSolveSeeds clues, in the last SeedRows rows (Lowest
\* scans from the first row, so that the guesses fall in the rows above)
SeedSolve ==
    /\ nseeds < MaxSolveSeeds
    /\ \E i \in (Size - SeedRows)..(Size - 1) : \E j \in Idx : \E d \in Digits1 : DoSeed(i, j, d)

SolveStep ==
    \/ SolveBase
    \/ SolveBranch
    \/ SolveGuess
    \/ SolveFail
    \/ SolveSuccess
    \/ SolveRestore
    \/ SolveDone

\* main assigns clues, then calls Solve
NextSolve == SeedSolve \/ StartSolve \/ SolveStep

SpecSolve == Init /\ [][NextSolve]_vars

\* main assigns at most MaxTermSeeds clues, anywhere
SeedTerm ==
    /\ nseeds < MaxTermSeeds
    /\ \E i \in Idx : \E j \in Idx : \E d \in Digits1 : DoSeed(i, j, d)

NextTerm == SeedTerm \/ StartSolve \/ SolveStep

SpecTerm == Init /\ [][NextTerm]_vars

\* main is one sequential thread: once it has called Solve it always takes its
\* next step, and it does call Solve
FairTerm == SpecTerm /\ WF_vars(StartSolve \/ SolveStep)

\* main assigns at most MaxConfSeeds clues in the last SeedRows rows; alt is
\* the result of each Set under some other order of processing
SeedConf ==
    /\ pc = "seed"
    /\ nseeds < MaxConfSeeds
    /\ \E i \in (Size - SeedRows)..(Size - 1) : \E j \in Idx : \E d \in Digits1 :
          LET b2 == Set(board, i, j, d)
          IN  \E v \in Variants :
                 /\ board' = b2
                 /\ alt' = SetVariant(board, i, j, d, v)
                 /\ pre' = board
                 /\ last' = << i, j, d >>
    /\ nseeds' = nseeds + 1
    /\ UNCHANGED << pc, stack, ret, entry, board0, lastSet, dup, sol >>

NextConf == SeedConf

SpecConf == Init /\ [][NextConf]_vars

\* the completed grids whose first row is 1, 2, .., Size
SolGrids == {g \in Grids : \A j \in Idx : g[At(0, j)] = j + 1}

InitSol == Start /\ sol \in SolGrids

Assigned == {p \in Pos : lastSet[p] # 0}

\* main assigns the digit of sol to any cell, MaxFreeSeeds times
SeedSol ==
    /\ nseeds < MaxFreeSeeds
    /\ \E i \in Idx : \E j \in Idx : DoSeed(i, j, sol[At(i, j)])

\* main assigns the digit of sol to the first cell not assigned yet
FillSol ==
    /\ nseeds >= MaxFreeSeeds
    /\ Assigned # Pos
    /\ LET p == CHOOSE q \in Pos \ Assigned : \A r \in Pos \ Assigned : q <= r
       IN  DoSeed(RowOf(p), ColOf(p), sol[p])

NextSol == SeedSol \/ FillSol

SpecSol == InitSol /\ [][NextSol]_vars

\* --------------------------------------------------------- properties
NumSingle(b) == Cardinality({p \in Pos : Single(b[p])})
NumEmpty(b) == Cardinality({p \in Pos : b[p] = {}})
Unresolved(b) == Cardinality({p \in Pos : Count(b[p]) > 1})

NoDupSingles(b) ==
    \A p \in Pos : \A q \in Pos :
        (Peer(p, q) /\ Single(b[p]) /\ Single(b[q])) => Digit(b[p]) # Digit(b[q])

FixedPoint(b) ==
    \A p \in Pos : \A q \in Pos :
        (Peer(p, q) /\ Single(b[p])) => ~IsSet(b[q], Digit(b[p]))

LastCell == At(last[1], last[2])

\* C1: after every top-level Set call of any sequence of Set calls on
\* EmptyBoard, no two distinct cells of one row, column or box are both
\* Single with the same digit.
C1_NoDuplicateSingles == nseeds > 0 => NoDupSingles(board)

\* C1 witness: after contradictory assignments (a cell is empty) there are
\* Single peers, and a cell was resolved by cascade
C1_Witness ==
    /\ nseeds >= 2
    /\ NumEmpty(board) > 0
    /\ NumSingle(board) > nseeds
    /\ \E p \in Pos : \E q \in Pos : Peer(p, q) /\ Single(board[p]) /\ Single(board[q])

\* C5 as stated: after Set(i, j, d) returns, the cell (i, j) is Single with
\* digit d.
C5_AssignedCellIsSingle ==
    last # << >> => (Single(board[LastCell]) /\ Digit(board[LastCell]) = last[3])

\* C5 amended: after Set(i, j, d) returns, the candidates of (i, j) are {d}
\* or empty, and they are {d} whenever some completed rule-consistent grid
\* with d at (i, j) takes every digit from the candidates before the call.
C5_AssignedCellSingleOrEmpty ==
    last # << >> =>
        /\ board[LastCell] \subseteq {last[3]}
        /\ HasSolution([pre EXCEPT ![LastCell] = {last[3]}]) => board[LastCell] = {last[3]}

\* C5 witness: a Set call with a cascade that left its cell Single, and one
\* on a board without a solution that did so too
C5_Witness ==
    /\ last # << >>
    /\ board[LastCell] = {last[3]}
    /\ pre[LastCell] # {last[3]}
    /\ NumSingle(board) > NumSingle(pre) + 1
    /\ HasSolution([pre EXCEPT ![LastCell] = {last[3]}])

\* C10: after every top-level Set call, and at every entry to and return from
\* Solve, no peer of a Single cell has that cell's digit among its candidates.
C10_FixedPoint == FixedPoint(board)

\* C10 witness: a Solve call begins after a guess with a cascade, on a board
\* with Single and unresolved cells
C10_Witness ==
    /\ pc = "call"
    /\ stack # << >>
    /\ NumSingle(board) > NumSingle(stack[Len(stack)].cpy) + 1
    /\ Unresolved(board) > 0

\* the cells of the units of the board: rows, columns and boxes
Units ==
    {{At(i, j) : j \in Idx} : i \in Idx}
    \cup {{At(i, j) : i \in Idx} : j \in Idx}
    \cup {{p \in Pos : BoxBase(RowOf(p)) = x * BoxDim /\ BoxBase(ColOf(p)) = y * BoxDim} :
            x \in 0..(BoxDim - 1), y \in 0..(BoxDim - 1)}

\* every cell has one candidate and every unit holds each digit exactly once
CompleteGrid(b) ==
    /\ \A p \in Pos : Cardinality(b[p]) = 1
    /\ \A u \in Units : \A d \in Digits1 : Cardinality({p \in u : b[p] = {d}}) = 1

\* every cell of b has one candidate, which is a candidate of the cell in a
Within(b, a) == \A p \in Pos : Cardinality(b[p]) = 1 /\ b[p] \subseteq a[p]

\* C2: whenever a Solve call returns true the board is Solved, every row,
\* column and box holds each digit exactly once, and every cell's digit was
\* among its candidates when Solve was called; Solved is never true on a
\* board with a duplicate digit among peers.
C2_SolveTrueIsSolution ==
    /\ (pc \in {"ret", "done"} /\ ret) =>
          /\ Solved(board)
          /\ CompleteGrid(board)
          /\ Within(board, entry)
          /\ Within(board, board0)
    /\ Solved(board) => NoDupSingles(board)

\* C2 witness: the top-level Solve has returned true on a board that needed
\* guessing
C2_Witness == pc = "done" /\ ret /\ Unresolved(board0) > 0 /\ nseeds = MaxSolveSeeds

\* C3: if two different cells of one row were assigned the same digit by the
\* seeds (and not re-assigned since), Solve returns false.
C3_DuplicateSeedFails == (pc = "done" /\ dup) => ~ret

\* C3 witness: Solve has returned false after such seeds and one more seed, on
\* a board that had cells to guess
C3_Witness ==
    pc = "done" /\ dup /\ ~ret /\ nseeds = MaxSolveSeeds /\ Unresolved(board0) > 0

\* C4: whenever a Solve call (top-level or nested) returns false, every cell
\* equals its value at the moment the call began; after the top-level call
\* the Single cells are those of the seeded board.
C4_FailureRestoresBoard ==
    /\ (pc \in {"ret", "done"} /\ ~ret) => board = entry
    /\ (pc = "done" /\ ~ret) =>
          /\ board = board0
          /\ \A p \in Pos : Cardinality(board[p]) = 1 <=> Cardinality(board0[p]) = 1

\* C4 witness: a nested Solve call that tried guesses has returned false
C4_Witness ==
    /\ pc = "ret"
    /\ ~ret
    /\ stack # << >>
    /\ Unresolved(board) > 0
    /\ board # stack[Len(stack)].cpy

\* C6: if some completed rule-consistent grid takes every digit from the
\* candidates of the board on which Solve is called, Solve returns true.
C6_SolveExhaustive ==
    /\ (pc = "done" /\ HasSolution(board0)) => ret
    /\ (pc = "ret" /\ HasSolution(entry)) => ret

\* C6 witness: a Solve call returns true after an earlier digit of its cell
\* had failed and was undone
C6_Witness ==
    /\ pc = "ret"
    /\ ret
    /\ stack # << >>
    /\ LET f == stack[Len(stack)]
       IN  f.c # f.entry[At(f.i, f.j)]

\* the number of Solve calls that are inside their loop: the calls enclosing
\* the call that begins (pc = "call") or has returned (pc = "ret")
Depth == Len(stack)

\* each guess of the enclosing calls resolved at least one more cell
GuessesDecrease ==
    /\ \A k \in 1..(Len(stack) - 1) :
          Unresolved(stack[k + 1].entry) < Unresolved(stack[k].entry)
    /\ (pc = "call" /\ stack # << >>) =>
          Unresolved(board) < Unresolved(stack[Len(stack)].entry)

\* the Set call of the guess that the innermost Solve call makes next returns
GuessSetReturns ==
    (pc = "loop" /\ stack[Len(stack)].c # {}) =>
        LET f == stack[Len(stack)]
        IN  SetReturned(SetRun(SetCall(board, << >>, f.i, f.j, Digit(f.c)), RunLog))

\* C9: every Solve call terminates, and the nesting depth of Solve calls (the
\* number of calls enclosing the current one) never exceeds the number of
\* cells with more than one candidate when the top-level Solve was called,
\* each guess leaving fewer such cells; every Set call made by Solve returns.
C9_SolveTerminates ==
    /\ [](pc # "seed" => (Depth <= Unresolved(board0) /\ GuessesDecrease /\ GuessSetReturns))
    /\ <>(pc = "done")

\* C9 witness: a Solve call begins inside three enclosing calls, on a board
\* that still has cells with more than one candidate
C9_Witness ==
    /\ pc = "call"
    /\ Depth >= 3
    /\ Unresolved(board) > 0
    /\ Unresolved(board) < Unresolved(board0)

\* C7 as stated: the board after Set(i, j, d) is the same under every order
\* of processing the peers and the forced singles.
C7_Confluent == alt = board

\* C7 amended: the board after Set(i, j, d) is the same under every order of
\* processing whenever some completed rule-consistent grid with d at (i, j)
\* takes every digit from the candidates before the call.
C7_ConfluentIfSolvable ==
    (last # << >> /\ HasSolution([pre EXCEPT ![LastCell] = {last[3]}])) => alt = board

\* C7 witness: a Set call that resolved forced singles, on a board with a
\* solution
C7_Witness ==
    /\ last # << >>
    /\ HasSolution([pre EXCEPT ![LastCell] = {last[3]}])
    /\ NumSingle(board) > NumSingle(pre) + 2
    /\ alt = board

\* C8: for a completed rule-consistent grid sol, after any Set calls that
\* assign digits of sol every cell has its digit of sol as a candidate (so no
\* cell is empty), and once every cell has been assigned every cell is
\* exactly its digit of sol and the board is Solved; EmptyBoard is not Solved.
C8_SolutionDigitsKept ==
    /\ Compatible(sol, board)
    /\ \A p \in Pos : board[p] # {}
    /\ Assigned = Pos => (Solved(board) /\ \A p \in Pos : board[p] = {sol[p]})
    /\ ~Solved(EmptyBoard)

\* C8 witness: every cell has been assigned its digit of sol
C8_Witness == Assigned = Pos /\ nseeds >= NCells /\ Solved(board)

====
